---- MODULE Spec2Model ----
(***************************************************************************)
(* The uKids scheduler of app_fixed.py: build_long_df reshapes the form    *)
(* responses into (person, role, priority) records and per-person flags,   *)
(* assign_roles fills the schedule in three passes (priority-1 roles,      *)
(* extras Group A, extras Group B).  One action is one iteration of one of *)
(* the loops of the source.                                                *)
(***************************************************************************)
EXTENDS Integers, Sequences, FiniteSets

\* ------------------------------------------------------------------ bounds
MaxRows == 2
MaxDates == 2

\* --------------------------------------------------------------- constants
DIRECTOR_ALLOWED_ROLES ==
  { "Babies Leader Age 1", "Babies Leader Age 2", "Pre-School Leader Age 3",
    "Pre-School Leader Age 4", "Pre-School Leader Age 5",
    "Elementary Leader Age 6", "Elementary Leader Age 7",
    "Elementary Leader Age 8", "uGroup Age 9", "uGroup Age 10",
    "uGroup Age 11", "Special Needs", "Brooklyn Babies Leader",
    "Brooklyn Pre-school Leader" }

EXTRA_GROUP_A_ROWS == << "Setup", "Info Desk", "Sound" >>

EXTRA_GROUP_B_ROWS == << "Helping Ninja & Check in", "Hall Support" >>

\* ------------------------------------------------------------ input domains
\* Names of the people table and of the availability mapping.
Names == { "p1", "p2" }

Dates == { "d1", "d2" }

\* The role columns handed to build_long_df, in column order: a Group A row
\* name that is also a form column, a role directors may lead, and a Group B
\* row name that is also a form column.
role_cols == << "Sound", "Babies Leader Age 1", "Hall Support" >>

\* The role names of the model in ascending string order (Python's sorted()).
RoleOrder ==
  << "Babies Leader Age 1", "Hall Support", "Helping Ninja & Check in",
     "Info Desk", "Setup", "Sound" >>

Range(s) == { s[i] : i \in DOMAIN s }

Roles == Range(RoleOrder)

Cells == Roles \X Dates

\* What pd.to_numeric(..., errors="coerce") makes of a cell of the form: NaN
\* (a blank or non-numeric cell) or a number, held in tenths (15 is 1.5).
NaN == << >>

Num(tenths) == << tenths >>

\* A row of the people table: the name, the tokens re.findall finds in the
\* upper-cased codes cell, and one cell per role column.
Row(name, toks, sound, babies, hall) ==
  [ name |-> name, toks |-> toks,
    cells |-> [ r \in Range(role_cols) |->
                  IF r = "Sound" THEN sound
                  ELSE IF r = "Babies Leader Age 1" THEN babies
                  ELSE hall ] ]

RowChoices ==
  { Row("", << >>, Num(10), Num(10), NaN),
    Row("p1", << >>, Num(10), NaN, NaN),
    Row("p1", << "D" >>, NaN, Num(10), NaN),
    Row("p1", << "D" >>, Num(10), NaN, NaN),
    Row("p1", << "D", "X" >>, NaN, NaN, NaN),
    Row("p2", << "BL" >>, NaN, Num(10), Num(10)),
    Row("p2", << >>, Num(10), Num(20), NaN),
    Row("p2", << >>, Num(4), Num(20), NaN),
    Row("Nan", << >>, Num(10), NaN, NaN) }

RECURSIVE SeqsUpTo(_, _)
SeqsUpTo(S, n) ==
  IF n = 0 THEN { << >> }
  ELSE LET shorter == SeqsUpTo(S, n - 1)
       IN  shorter \cup { Append(s, x) : s \in shorter, x \in S }

PeopleTables == SeqsUpTo(RowChoices, MaxRows)

DateSeqs == SeqsUpTo(Dates, MaxDates)

\* An availability mapping: its keys in insertion order, each with the set of
\* dates on which its value is truthy.
NoDup(s) == \A i, j \in DOMAIN s : i # j => s[i].person # s[j].person

AvailEntries ==
  { [ person |-> p, dates |-> ds ] :
      p \in Names, ds \in (SUBSET Dates) \ { {} } }

Availabilities ==
  { a \in SeqsUpTo(AvailEntries, Cardinality(Names)) : NoDup(a) }

VARIABLES
  pc,               \* where the run is
  people_df,        \* the table build_long_df was given (its argument only)
  long_df,          \* the records of build_long_df, in order
  role_codes,       \* person -> flags
  service_dates,
  availability,
  schedule_cells,   \* (role, date) -> list of persons
  assign_count,     \* person -> number of assignments
  di,               \* index of the date of the running pass
  ri,               \* index of the role or row in the date; 0 at the loop head
  assigned_today,   \* the set computed at the head of a Group A / B date
  served_p1_people, \* the set of line 371
  placed_by,        \* history: the pass that made each entry of schedule_cells
  log,              \* history: the (pass, date index) iterations completed
  rerun,            \* "none", or how a second call of assign_roles was made
  first_run,        \* what the first call ended with, once a second is made
  sheet_df,         \* review tool: the rows of the sheet
  girls,            \* review tool: the names listed for the director
  results,          \* review tool: the (name, status, reason) computed so far
  metrics           \* review tool: the three counts shown

\* The variables of a second call of assign_roles.
rerun_vars == << rerun, first_run >>

\* The variables of the review tool.
review_vars == << sheet_df, girls, results, metrics >>

vars == << pc, people_df, long_df, role_codes, service_dates, availability,
           schedule_cells, assign_count, di, ri, assigned_today,
           served_p1_people, placed_by, log, rerun, first_run, sheet_df,
           girls, results, metrics >>

\* ------------------------------------------------------------ build_long_df
\* round(): to the nearest integer, a half to the even one.
PyRound(tenths) ==
  LET q == tenths \div 10
      r == tenths % 10
  IN  IF r < 5 THEN q
      ELSE IF r > 5 THEN q + 1
      ELSE IF q % 2 = 0 THEN q ELSE q + 1

\* The flags build_long_df derives from the tokens of the codes cell.
ParseFlags(toks) ==
  [ has_D  |-> "D" \in Range(toks),
    has_BL |-> "BL" \in Range(toks),
    has_PL |-> "PL" \in Range(toks),
    has_EL |-> "EL" \in Range(toks),
    has_SL |-> "SL" \in Range(toks) ]

\* The flags role_codes.get(p, {}) yields for a person without an entry:
\* every flags.get(...) of the empty dict is falsy.
NoFlags ==
  [ has_D |-> FALSE, has_BL |-> FALSE, has_PL |-> FALSE, has_EL |-> FALSE,
    has_SL |-> FALSE ]

\* str.lower() on the names of the model.
Lower(name) == IF name \in { "Nan", "NAN", "NaN" } THEN "nan" ELSE name

\* Line 307: a row whose name is empty or reads "nan" is skipped.
RowKept(r) == ~(r.name = "" \/ Lower(r.name) = "nan")

\* Faulty variant: a director's priority-1 cell is kept whatever the role.
KeepsRecord_AnyRole(r, role) ==
  LET c == r.cells[role]
  IN  /\ c # NaN
      /\ PyRound(c[1]) >= 1
      /\ ParseFlags(r.toks).has_D => PyRound(c[1]) = 1

\* Whether the cell of role column `role` of row r yields a record.
KeepsRecord(r, role) ==
  LET c == r.cells[role]
  IN  /\ c # NaN
      /\ PyRound(c[1]) >= 1
      /\ ParseFlags(r.toks).has_D =>
            (PyRound(c[1]) = 1 /\ role \in DIRECTOR_ALLOWED_ROLES)

\* The records of one row, over the role columns in order.
RECURSIVE RowRecords(_, _)
RowRecords(r, k) ==
  IF k > Len(role_cols) THEN << >>
  ELSE LET role == role_cols[k]
           here == IF KeepsRecord(r, role)
                   THEN << [ person |-> r.name, role |-> role,
                             priority |-> PyRound(r.cells[role][1]) ] >>
                   ELSE << >>
       IN  here \o RowRecords(r, k + 1)

\* The records of the whole table, rows in order.
RECURSIVE BuildRecords(_)
BuildRecords(table) ==
  IF table = << >> THEN << >>
  ELSE LET r == Head(table)
       IN  (IF RowKept(r) THEN RowRecords(r, 1) ELSE << >>)
             \o BuildRecords(Tail(table))

\* role_codes[person] = flags: a later row of the same name overwrites.
BuildCodes(table) ==
  LET kept == { i \in DOMAIN table : RowKept(table[i]) }
      last(p) == CHOOSE i \in kept :
                   /\ table[i].name = p
                   /\ \A j \in kept : table[j].name = p => j <= i
  IN  [ p \in { table[i].name : i \in kept } |->
          ParseFlags(table[last(p)].toks) ]

\* ------------------------------------------------------- assign_roles helpers
\* Faulty variant: everyone but a director may serve twice.
base_max_for_person_Two(flags) == IF flags.has_D THEN 1 ELSE 2

\* Directors only serve once per service; everyone else: 1 by default.
base_max_for_person(flags) == IF flags.has_D THEN 1 ELSE 1

is_ukids_leader(flags) ==
  flags.has_BL \/ flags.has_PL \/ flags.has_EL \/ flags.has_SL

\* role_codes.get(p, {})
FlagsGet(p) == IF p \in DOMAIN role_codes THEN role_codes[p] ELSE NoFlags

\* availability.keys(), in order
AvailKeys == [ i \in DOMAIN availability |-> availability[i].person ]

\* availability.get(p, {}).get(d, False)
Available(p, d) ==
  \E i \in DOMAIN availability :
    availability[i].person = p /\ d \in availability[i].dates

\* assign_count.get(p, 0): assign_count holds 0 for a person never counted.
CountGet(p) == assign_count[p]

\* cands.sort(key=lambda nm: assign_count.get(nm, 0)): a stable sort, by
\* insertion from the left.
RECURSIVE InsertByCount(_, _)
InsertByCount(sorted, x) ==
  IF sorted = << >> THEN << x >>
  ELSE IF CountGet(sorted[Len(sorted)]) <= CountGet(x) THEN Append(sorted, x)
  ELSE Append(InsertByCount(SubSeq(sorted, 1, Len(sorted) - 1), x),
              sorted[Len(sorted)])

\* Faulty variant: the candidates are left in the order they were collected.
SortByCount_Unsorted(cands) == cands

RECURSIVE SortByCount(_)
SortByCount(cands) ==
  IF cands = << >> THEN << >>
  ELSE InsertByCount(SortByCount(SubSeq(cands, 1, Len(cands) - 1)),
                     cands[Len(cands)])

\* set(nm for (rn, dd), names in schedule_cells.items() if dd == d
\*     for nm in names)
AssignedOn(d) ==
  UNION { Range(schedule_cells[c]) : c \in { x \in Cells : x[2] = d } }

\* {p for (role, d), names in schedule_cells.items() for p in names}
ServedPeople == UNION { Range(schedule_cells[c]) : c \in Cells }

\* Faulty variant: the append is not followed by the increment.
Place_NoIncrement(key, chosen, pass) ==
  /\ schedule_cells' = [ schedule_cells EXCEPT ![key] = Append(@, chosen) ]
  /\ assign_count' = assign_count
  /\ placed_by' = [ placed_by EXCEPT ![key] = Append(@, pass) ]

\* Faulty variant: the cell is overwritten with the chosen person.
Place_Replaces(key, chosen, pass) ==
  /\ schedule_cells' = [ schedule_cells EXCEPT ![key] = << chosen >> ]
  /\ assign_count' = [ assign_count EXCEPT ![chosen] = @ + 1 ]
  /\ placed_by' = [ placed_by EXCEPT ![key] = << pass >> ]

\* schedule_cells[key].append(chosen); assign_count[chosen] += 1
Place(key, chosen, pass) ==
  /\ schedule_cells' = [ schedule_cells EXCEPT ![key] = Append(@, chosen) ]
  /\ assign_count' = [ assign_count EXCEPT ![chosen] = @ + 1 ]
  /\ placed_by' = [ placed_by EXCEPT ![key] = Append(@, pass) ]

NoPlace == UNCHANGED << schedule_cells, assign_count, placed_by >>

\* ---------------------------------------------------------------- Init
\* No second call of assign_roles has been made.
NoRerun ==
  /\ rerun = "none"
  /\ first_run = [ pc |-> "none", schedule_cells |-> [ c \in Cells |-> << >> ],
                    assign_count |-> [ p \in Names |-> 0 ],
                    placed_by |-> [ c \in Cells |-> << >> ], log |-> << >>,
                    served_p1_people |-> {} ]

\* The review tool is not running.
ReviewIdle ==
  /\ sheet_df = << >>
  /\ girls = << >>
  /\ results = << >>
  /\ metrics = [ done_count |-> 0, review_count |-> 0, not_count |-> 0 ]

Init ==
  /\ pc = "start"
  /\ people_df = << >>
  /\ long_df = << >>
  /\ role_codes = << >>
  /\ service_dates = << >>
  /\ availability = << >>
  /\ schedule_cells = [ c \in Cells |-> << >> ]
  /\ assign_count = [ p \in Names |-> 0 ]
  /\ di = 1
  /\ ri = 0
  /\ assigned_today = {}
  /\ served_p1_people = {}
  /\ placed_by = [ c \in Cells |-> << >> ]
  /\ log = << >>
  /\ NoRerun
  /\ ReviewIdle

\* build_long_df(people_df, name_col, role_cols, codes_col)
BuildLongDf ==
  /\ pc = "start"
  /\ \E table \in PeopleTables :
       /\ people_df' = table
       /\ long_df' = BuildRecords(table)
       /\ role_codes' = BuildCodes(table)
  /\ pc' = "built"
  /\ UNCHANGED << service_dates, availability, schedule_cells, assign_count, di,
                  ri, assigned_today, served_p1_people, placed_by, log >>
  /\ UNCHANGED << rerun_vars, review_vars >>

\* assign_roles(service_dates, long_df, role_codes, availability) is entered;
\* the people table is not among its arguments.
AssignRoles ==
  /\ pc = "built"
  /\ people_df' = << >>
  /\ \E sd \in DateSeqs, av \in Availabilities :
       /\ service_dates' = sd
       /\ availability' = av
  /\ pc' = "primary"
  /\ di' = 1
  /\ ri' = 0
  /\ UNCHANGED << long_df, role_codes, schedule_cells, assign_count,
                  assigned_today, served_p1_people, placed_by, log >>
  /\ UNCHANGED << rerun_vars, review_vars >>

\* ------------------------------------------------- Step 1: priority 1 roles
\* df1 = long_df[long_df.priority == 1]
df1 == SelectSeq(long_df, LAMBDA rec : rec.priority = 1)

\* sorted(df1.role.unique())
P1Roles ==
  SelectSeq(RoleOrder, LAMBDA r : \E i \in DOMAIN df1 : df1[i].role = r)

\* Faulty variant: the cap test of line 359 is missing.
PrimaryCands_NoCapTest(role, d) ==
  LET named == SelectSeq(df1, LAMBDA rec : rec.role = role)
      persons == [ i \in DOMAIN named |-> named[i].person ]
  IN  SelectSeq(persons, LAMBDA p : Available(p, d))

\* The candidates of lines 357-359 for a role on a date, in long_df order.
PrimaryCands(role, d) ==
  LET named == SelectSeq(df1, LAMBDA rec : rec.role = role)
      persons == [ i \in DOMAIN named |-> named[i].person ]
      avail == SelectSeq(persons, LAMBDA p : Available(p, d))
  IN  SelectSeq(avail,
                LAMBDA p : CountGet(p) < base_max_for_person(role_codes[p]))

\* The loop over service_dates has run out.
DatesDone == di > Len(service_dates)

\* The date loop of a pass moves to its next date.
NextDate(pass) ==
  /\ di' = di + 1
  /\ ri' = 0
  /\ log' = Append(log, << pass, di >>)

\* Lines 354-356: a date of the primary pass begins.  pd.DataFrame([]) has no
\* columns, so long_df.priority raises AttributeError when no record was built.
PrimaryDate ==
  /\ pc = "primary" /\ ri = 0 /\ ~DatesDone
  /\ long_df # << >>
  /\ IF P1Roles = << >>
       THEN NextDate("P")
       ELSE ri' = 1 /\ UNCHANGED << di, log >>
  /\ UNCHANGED << people_df, pc, long_df, role_codes, service_dates,
                  availability,
                  schedule_cells, assign_count, assigned_today,
                  served_p1_people, placed_by >>
  /\ UNCHANGED << rerun_vars, review_vars >>

PrimaryAttributeError ==
  /\ pc = "primary" /\ ri = 0 /\ ~DatesDone
  /\ long_df = << >>
  /\ pc' = "error"
  /\ UNCHANGED << people_df, long_df, role_codes, service_dates,
                  availability,
                  schedule_cells, assign_count, di, ri, assigned_today,
                  served_p1_people, placed_by, log >>
  /\ UNCHANGED << rerun_vars, review_vars >>

\* Lines 356-365: one role of one date.
PrimaryRole ==
  /\ pc = "primary" /\ ri >= 1
  /\ LET role == P1Roles[ri]
         d == service_dates[di]
         cands == PrimaryCands(role, d)
     IN  IF cands = << >>
         THEN NoPlace
         ELSE Place(<< role, d >>, SortByCount(cands)[1], "P")
  /\ IF ri = Len(P1Roles)
       THEN NextDate("P")
       ELSE ri' = ri + 1 /\ UNCHANGED << di, log >>
  /\ UNCHANGED << people_df, pc, long_df, role_codes, service_dates,
                  availability,
                  assigned_today, served_p1_people >>
  /\ UNCHANGED << rerun_vars, review_vars >>

\* Faulty variant: assign_extra_group_a is called from inside the date loop,
\* once the first date is done.
PrimaryDoneEarly ==
  /\ pc = "primary" /\ ri = 0 /\ di > 1
  /\ pc' = "groupA"
  /\ di' = 1
  /\ UNCHANGED << people_df, long_df, role_codes, service_dates,
                  availability,
                  schedule_cells, assign_count, ri, assigned_today,
                  served_p1_people, placed_by, log >>
  /\ UNCHANGED << rerun_vars, review_vars >>

\* Line 368: the primary loop is over, assign_extra_group_a is called.
PrimaryDone ==
  /\ pc = "primary" /\ ri = 0 /\ DatesDone
  /\ pc' = "groupA"
  /\ di' = 1
  /\ UNCHANGED << people_df, long_df, role_codes, service_dates,
                  availability,
                  schedule_cells, assign_count, ri, assigned_today,
                  served_p1_people, placed_by, log >>
  /\ UNCHANGED << rerun_vars, review_vars >>

\* ------------------------------------------------- Step 2: extras Group A
\* Faulty variant: the availability test of line 389 is missing.
CandA_IgnoresAvailability(p, d) ==
  LET flags == FlagsGet(p)
  IN  /\ ~flags.has_D
      /\ p \notin assigned_today
      /\ ~(CountGet(p) >= base_max_for_person(flags) + 1)

\* Faulty variant: persons already assigned on the date are not excluded.
CandA_IgnoresAssignedToday(p, d) ==
  LET flags == FlagsGet(p)
  IN  /\ ~flags.has_D
      /\ Available(p, d)
      /\ ~(CountGet(p) >= base_max_for_person(flags) + 1)

\* The candidate test of lines 385-396.
CandA(p, d) ==
  LET flags == FlagsGet(p)
  IN  /\ ~flags.has_D
      /\ Available(p, d)
      /\ p \notin assigned_today
      /\ ~(CountGet(p) >= base_max_for_person(flags) + 1)

\* Line 378: a date of Group A begins.
GroupADate ==
  /\ pc = "groupA" /\ ri = 0 /\ ~DatesDone
  /\ assigned_today' = AssignedOn(service_dates[di])
  /\ ri' = 1
  /\ UNCHANGED << people_df, pc, long_df, role_codes, service_dates,
                  availability,
                  schedule_cells, assign_count, di, served_p1_people,
                  placed_by, log >>
  /\ UNCHANGED << rerun_vars, review_vars >>

\* Faulty variant: the candidates are held in a set, and the one a row gets is
\* whichever the iteration yields first.
GroupARow_AnyCandidate ==
  /\ pc = "groupA" /\ ri >= 1
  /\ LET d == service_dates[di]
         key == << EXTRA_GROUP_A_ROWS[ri], d >>
         cands == { p \in Range(AvailKeys) : CandA(p, d) }
     IN  IF Len(schedule_cells[key]) >= 1 \/ cands = {}
         THEN NoPlace
         ELSE \E chosen \in cands : Place(key, chosen, "A")
  /\ IF ri = Len(EXTRA_GROUP_A_ROWS)
       THEN NextDate("A")
       ELSE ri' = ri + 1 /\ UNCHANGED << di, log >>
  /\ UNCHANGED << people_df, pc, long_df, role_codes, service_dates,
                  availability, assigned_today, served_p1_people >>
  /\ UNCHANGED << rerun_vars, review_vars >>

\* Lines 379-401: one row of one date.
GroupARow ==
  /\ pc = "groupA" /\ ri >= 1
  /\ LET d == service_dates[di]
         key == << EXTRA_GROUP_A_ROWS[ri], d >>
         cands == SortByCount(SelectSeq(AvailKeys, LAMBDA p : CandA(p, d)))
     IN  IF Len(schedule_cells[key]) >= 1 \/ cands = << >>
         THEN NoPlace
         ELSE Place(key, cands[1], "A")
  /\ IF ri = Len(EXTRA_GROUP_A_ROWS)
       THEN NextDate("A")
       ELSE ri' = ri + 1 /\ UNCHANGED << di, log >>
  /\ UNCHANGED << people_df, pc, long_df, role_codes, service_dates,
                  availability,
                  assigned_today, served_p1_people >>
  /\ UNCHANGED << rerun_vars, review_vars >>

\* Lines 371-372: Group A has returned; the served set is computed and
\* assign_extra_group_b is called.
GroupADone ==
  /\ pc = "groupA" /\ ri = 0 /\ DatesDone
  /\ served_p1_people' = ServedPeople
  /\ pc' = "groupB"
  /\ di' = 1
  /\ UNCHANGED << people_df, long_df, role_codes, service_dates,
                  availability,
                  schedule_cells, assign_count, ri, assigned_today, placed_by,
                  log >>
  /\ UNCHANGED << rerun_vars, review_vars >>

\* ------------------------------------------------- Step 3: extras Group B
\* "Helping Ninja & Check in" in row_name
IsNinjaRow(row_name) == row_name = "Helping Ninja & Check in"

\* Faulty variant: the leader test of line 425 is missing.
CandB_NoLeaderTest(p, row_name, d) ==
  LET flags == FlagsGet(p)
  IN  /\ ~flags.has_D
      /\ p \in served_p1_people
      /\ Available(p, d)
      /\ p \notin assigned_today
      /\ ~(CountGet(p) >= base_max_for_person(flags))

\* Faulty variant: the count test of line 423 is missing.
CandB_NoCountTest(p, row_name, d) ==
  LET flags == FlagsGet(p)
  IN  /\ ~flags.has_D
      /\ p \in served_p1_people
      /\ Available(p, d)
      /\ p \notin assigned_today
      /\ ~(IsNinjaRow(row_name) /\ ~is_ukids_leader(flags))

\* The candidate test of lines 412-427.
CandB(p, row_name, d) ==
  LET flags == FlagsGet(p)
  IN  /\ ~flags.has_D
      /\ p \in served_p1_people
      /\ Available(p, d)
      /\ p \notin assigned_today
      /\ ~(CountGet(p) >= base_max_for_person(flags))
      /\ ~(IsNinjaRow(row_name) /\ ~is_ukids_leader(flags))

\* Line 405: a date of Group B begins.
GroupBDate ==
  /\ pc = "groupB" /\ ri = 0 /\ ~DatesDone
  /\ assigned_today' = AssignedOn(service_dates[di])
  /\ ri' = 1
  /\ UNCHANGED << people_df, pc, long_df, role_codes, service_dates,
                  availability,
                  schedule_cells, assign_count, di, served_p1_people,
                  placed_by, log >>
  /\ UNCHANGED << rerun_vars, review_vars >>

\* Lines 406-432: one row of one date.
GroupBRow ==
  /\ pc = "groupB" /\ ri >= 1
  /\ LET d == service_dates[di]
         row_name == EXTRA_GROUP_B_ROWS[ri]
         key == << row_name, d >>
         cands == SortByCount(SelectSeq(AvailKeys,
                                        LAMBDA p : CandB(p, row_name, d)))
     IN  IF Len(schedule_cells[key]) >= 1 \/ cands = << >>
         THEN NoPlace
         ELSE Place(key, cands[1], "B")
  /\ IF ri = Len(EXTRA_GROUP_B_ROWS)
       THEN NextDate("B")
       ELSE ri' = ri + 1 /\ UNCHANGED << di, log >>
  /\ UNCHANGED << people_df, pc, long_df, role_codes, service_dates,
                  availability,
                  assigned_today, served_p1_people >>
  /\ UNCHANGED << rerun_vars, review_vars >>

\* Line 374: return schedule_cells
Return ==
  /\ pc = "groupB" /\ ri = 0 /\ DatesDone
  /\ pc' = "done"
  /\ UNCHANGED << people_df, long_df, role_codes, service_dates,
                  availability,
                  schedule_cells, assign_count, di, ri, assigned_today,
                  served_p1_people, placed_by, log >>
  /\ UNCHANGED << rerun_vars, review_vars >>

Next ==
  \/ BuildLongDf
  \/ AssignRoles
  \/ PrimaryDate
  \/ PrimaryAttributeError
  \/ PrimaryRole
  \/ PrimaryDone
  \/ GroupADate
  \/ GroupARow
  \/ GroupADone
  \/ GroupBDate
  \/ GroupBRow
  \/ Return

Spec == Init /\ [][Next]_vars

\* ------------------------------------------- assign_roles called twice
\* The preference list without its entries of priority greater than 1.
WithoutHigherPriorities(ldf) == SelectSeq(ldf, LAMBDA rec : ~(rec.priority > 1))

\* What a call of assign_roles ended with and the run state it built.
Outcome ==
  [ pc |-> pc, schedule_cells |-> schedule_cells, assign_count |-> assign_count,
    placed_by |-> placed_by, log |-> log,
    served_p1_people |-> served_p1_people ]

\* A call of assign_roles has ended (line 374, or the exception of line 355).
CallEnded == pc \in { "done", "error" }

\* assign_roles is called a second time with the same service dates, flags
\* and availability, and with the same preference list ("same") or with the
\* list without its entries of priority > 1 ("stripped"); schedule_cells and
\* assign_count are created anew (lines 350-351).
SecondCall ==
  /\ CallEnded /\ rerun = "none"
  /\ \E mode \in { "same", "stripped" } :
       /\ mode = "stripped" => WithoutHigherPriorities(long_df) # long_df
       /\ rerun' = mode
       /\ long_df' = IF mode = "stripped"
                     THEN WithoutHigherPriorities(long_df)
                     ELSE long_df
  /\ first_run' = Outcome
  /\ pc' = "primary"
  /\ schedule_cells' = [ c \in Cells |-> << >> ]
  /\ assign_count' = [ p \in Names |-> 0 ]
  /\ di' = 1
  /\ ri' = 0
  /\ assigned_today' = {}
  /\ served_p1_people' = {}
  /\ placed_by' = [ c \in Cells |-> << >> ]
  /\ log' = << >>
  /\ UNCHANGED << people_df, role_codes, service_dates, availability,
                  review_vars >>

NextRerun ==
  \/ Next
  \/ SecondCall

SpecRerun == Init /\ [][NextRerun]_vars

\* --------------------------------- assign_extra_group_b called on its own
\* The flags a role_codes argument may hold for a person.
FlagChoices ==
  { ParseFlags(<< >>), ParseFlags(<< "D" >>), ParseFlags(<< "BL" >>) }

\* assign_extra_group_b(service_dates, schedule_cells, assign_count,
\* availability, role_codes, served_p1_people) with arguments of the caller's
\* choosing: an empty schedule, any counts, any served set.
InitB ==
  /\ pc = "groupB"
  /\ people_df = << >>
  /\ long_df = << >>
  /\ role_codes \in [ Names -> FlagChoices ]
  /\ service_dates \in DateSeqs
  /\ availability \in Availabilities
  /\ schedule_cells = [ c \in Cells |-> << >> ]
  /\ assign_count \in [ Names -> 0 .. 2 ]
  /\ di = 1
  /\ ri = 0
  /\ assigned_today = {}
  /\ served_p1_people \in SUBSET Names
  /\ placed_by = [ c \in Cells |-> << >> ]
  /\ log = << >>
  /\ NoRerun
  /\ ReviewIdle

NextB ==
  \/ GroupBDate
  \/ GroupBRow
  \/ Return

SpecB == InitB /\ [][NextB]_vars

\* ------------------------------------------------------------- properties
GroupARows == Range(EXTRA_GROUP_A_ROWS)

GroupBRows == Range(EXTRA_GROUP_B_ROWS)

\* The entries of the schedule: a cell and a position in its list.
Slots == UNION { { << c, i >> : i \in DOMAIN schedule_cells[c] } : c \in Cells }

PersonAt(sl) == schedule_cells[sl[1]][sl[2]]

PassAt(sl) == placed_by[sl[1]][sl[2]]

\* The number of entries a person has from the given passes.
Received(p, passes) ==
  Cardinality({ sl \in Slots : PersonAt(sl) = p /\ PassAt(sl) \in passes })

IsDirector(p) == p \in DOMAIN role_codes /\ role_codes[p].has_D

\* The availability mapping has a row for p whose entry for d is truthy.
HasTruthyEntry(p, d) ==
  \E i \in DOMAIN availability :
    availability[i].person = p /\ d \in availability[i].dates

\* C1: every person recorded in a cell (role, d), by whichever pass, is
\* available on d; a person without a truthy availability entry for d (or
\* without an availability row) is in no cell of d.
C1_PlacedOnlyWhenAvailable ==
  \A sl \in Slots : HasTruthyEntry(PersonAt(sl), sl[1][2])

\* C1 witness: a finished run in which the primary pass and the Group A pass
\* both placed someone.
C1_Witness ==
  /\ pc = "done"
  /\ \E sl \in Slots : PassAt(sl) = "P"
  /\ \E sl \in Slots : PassAt(sl) = "A"

\* C2: in every state of the run a person has at most 1 (the base cap)
\* assignment from the primary and Group B passes together, and an
\* AssignmentCount of at most 2 (base cap + 1) with Group A included.
C2_LoadCaps ==
  \A p \in Names :
    /\ Received(p, { "P", "B" }) <= 1
    /\ assign_count[p] <= 2

\* C2 witness: a person who holds a primary assignment and reached the count
\* of 2 through Group A.
C2_Witness ==
  \E p \in Names :
    /\ Received(p, { "P" }) = 1
    /\ Received(p, { "A" }) = 1
    /\ assign_count[p] = 2

\* C3: no cell of a Group A row (Setup, Info Desk, Sound) or of a Group B row
\* (Helping Ninja & Check in, Hall Support) contains a person whose director
\* flag is set.
C3_NoDirectorInExtraCells ==
  \A sl \in Slots :
    sl[1][1] \in GroupARows \cup GroupBRows => ~IsDirector(PersonAt(sl))

\* C4: every director in a cell filled by the primary pass has a priority-1
\* preference for the cell's role, and that role is one of
\* DIRECTOR_ALLOWED_ROLES.
C4_DirectorPrimaryCells ==
  \A sl \in Slots :
    (PassAt(sl) = "P" /\ IsDirector(PersonAt(sl))) =>
      /\ \E i \in DOMAIN long_df :
           /\ long_df[i].person = PersonAt(sl)
           /\ long_df[i].role = sl[1][1]
           /\ long_df[i].priority = 1
      /\ sl[1][1] \in DIRECTOR_ALLOWED_ROLES

\* C5: on one date no person is in more than one of the cells (Setup, d),
\* (Info Desk, d), (Sound, d) filled by the Group A pass.
C5_OneGroupACellPerDate ==
  \A d \in Dates, p \in Names :
    Cardinality({ sl \in Slots :
                    /\ sl[1][2] = d
                    /\ sl[1][1] \in GroupARows
                    /\ PassAt(sl) = "A"
                    /\ PersonAt(sl) = p }) <= 1

\* C6: every cell (role, date) holds zero or one person, in every state, for
\* every sequence of service dates (repeated dates included).
C6_CellHoldsAtMostOne ==
  \A c \in Cells : Len(schedule_cells[c]) <= 1

\* C7: build_long_df followed by assign_roles never ends in an error state,
\* also when the preference list is empty.
C7_NeverRaises == pc # "error"

\* C8: every person the Group B pass places in a "Helping Ninja & Check in"
\* cell carries at least one of has_BL, has_PL, has_EL, has_SL.
C8_NinjaIsLeader ==
  \A sl \in Slots :
    (PassAt(sl) = "B" /\ sl[1][1] = "Helping Ninja & Check in") =>
      LET p == PersonAt(sl)
      IN  /\ p \in DOMAIN role_codes
          /\ \/ role_codes[p].has_BL
             \/ role_codes[p].has_PL
             \/ role_codes[p].has_EL
             \/ role_codes[p].has_SL

\* C8 witness: the Group B pass has placed someone in a "Helping Ninja &
\* Check in" cell while a non-leader was available and served that date too.
C8_Witness ==
  \E sl \in Slots :
    /\ PassAt(sl) = "B"
    /\ sl[1][1] = "Helping Ninja & Check in"
    /\ \E q \in served_p1_people :
         /\ q # PersonAt(sl)
         /\ ~is_ukids_leader(role_codes[q])
         /\ ~role_codes[q].has_D
         /\ HasTruthyEntry(q, sl[1][2])
         /\ assign_count[q] = 0

\* The persons in a cell filled by the primary pass.
PrimaryServers == { PersonAt(sl) : sl \in { x \in Slots : PassAt(x) = "P" } }

\* C9: the served-primary set handed to the Group B pass is exactly the set
\* of persons in cells filled by the primary pass.
C9_ServedSetIsPrimaryOnly ==
  pc \in { "groupB", "done" } => served_p1_people = PrimaryServers

\* The iterations of a whole run: Primary, Group A, Group B, each over the
\* dates in order.
ExpectedLog ==
  LET n == Len(service_dates)
  IN  [ i \in 1 .. 3 * n |->
          << IF i <= n THEN "P" ELSE IF i <= 2 * n THEN "A" ELSE "B",
             ((i - 1) % n) + 1 >> ]

\* C10: the passes run once each in the order Primary, Group A, Group B, each
\* over all dates: the iterations completed are a prefix of that order, a
\* returned run completed all of them, no Group A assignment exists before the
\* primary pass finished its last date, and Group B does not run before Group
\* A finished its last date.
C10_PassOrder ==
  LET n == Len(service_dates)
  IN  /\ Len(log) <= 3 * n
      /\ log = SubSeq(ExpectedLog, 1, Len(log))
      /\ pc = "done" => Len(log) = 3 * n
      /\ (\E sl \in Slots : PassAt(sl) = "A") => Len(log) >= n
      /\ (pc = "groupA") => Len(log) >= n
      /\ (pc = "groupB" \/ \E sl \in Slots : PassAt(sl) = "B") => Len(log) >= 2 * n

\* C10 witness: a returned run over two dates in which both the primary pass
\* and the Group A pass placed someone.
C10_Witness ==
  /\ pc = "done"
  /\ Len(service_dates) = 2
  /\ Len(log) = 6
  /\ \E sl \in Slots : PassAt(sl) = "P" /\ sl[1][2] = service_dates[2]
  /\ \E sl \in Slots : PassAt(sl) = "A" /\ sl[1][2] = service_dates[1]

\* The position of a role name in ascending string order.
RoleRank(r) == CHOOSE i \in DOMAIN RoleOrder : RoleOrder[i] = r

\* The roles some record of the preference list names with priority 1.
Priority1Roles ==
  { long_df[i].role : i \in { j \in DOMAIN long_df : long_df[j].priority = 1 } }

\* The k-th of them in ascending alphabetical order.
KthPriority1Role(k) ==
  CHOOSE r \in Priority1Roles :
    Cardinality({ q \in Priority1Roles : RoleRank(q) < RoleRank(r) }) = k - 1

\* The positions of the preference list whose person may take (role, d) now:
\* priority 1 for the role, available on d, AssignmentCount below 1.
EligibleAt(role, d) ==
  { i \in DOMAIN long_df :
      /\ long_df[i].priority = 1
      /\ long_df[i].role = role
      /\ HasTruthyEntry(long_df[i].person, d)
      /\ assign_count[long_df[i].person] < 1 }

Least(S) == CHOOSE i \in S : \A j \in S : i <= j

\* C11: in the primary pass the k-th role visited on a date is the k-th
\* priority-1 role in alphabetical order, dates are taken in input order, and
\* the visit records in (role, date) the first person in preference-list
\* order who has priority 1 for the role, is available on the date and has
\* AssignmentCount below 1; it records nothing exactly when there is no such
\* person (so a sole available candidate with count 0 is assigned).  Nothing
\* else changes the schedule during the pass.
C11_PrimaryChoice ==
  [][ pc = "primary" =>
        IF ri = 0
        THEN schedule_cells' = schedule_cells
        ELSE LET role == KthPriority1Role(ri)
                 d == service_dates[di]
                 E == EligibleAt(role, d)
             IN  /\ IF E = {}
                    THEN schedule_cells' = schedule_cells
                    ELSE schedule_cells' =
                           [ schedule_cells EXCEPT ![<< role, d >>] =
                               Append(@, long_df[Least(E)].person) ]
                 /\ di' \in { di, di + 1 } ]_vars

\* C11 witness: the primary pass filled a cell with a person who is not the
\* first in the preference list with priority 1 for the role (an earlier one
\* was unavailable or at the cap), and left another visited cell empty.
C11_Witness ==
  /\ pc = "groupA"
  /\ \E sl \in Slots :
       /\ PassAt(sl) = "P"
       /\ \E i, j \in DOMAIN long_df :
            /\ i < j
            /\ long_df[i].priority = 1 /\ long_df[i].role = sl[1][1]
            /\ long_df[i].person # PersonAt(sl)
            /\ long_df[j].priority = 1 /\ long_df[j].role = sl[1][1]
            /\ long_df[j].person = PersonAt(sl)
  /\ \E r \in Priority1Roles, k \in DOMAIN service_dates :
       schedule_cells[<< r, service_dates[k] >>] = << >>

\* The position of a person among the keys of the availability mapping.
KeyPos(p) == CHOOSE i \in DOMAIN availability : availability[i].person = p

\* The persons eligible for a Group A row on date d: not a director,
\* available on d, not among the people assigned on d when the pass reached
\* the date, AssignmentCount below 2.
EligibleA(d) ==
  { p \in Names :
      /\ ~IsDirector(p)
      /\ HasTruthyEntry(p, d)
      /\ p \notin assigned_today
      /\ assign_count[p] < 2 }

NearestInt(tenths, k) == 10 * k - 5 <= tenths /\ tenths <= 10 * k + 5

\* What the claim lets row i of the table contribute for a role column: the
\* triple (name, role, k), when the name is non-empty, the cell is numeric
\* and rounds to k >= 1, and the row is not flagged director or k = 1 and
\* the role is an allowed director role.
Contributes(i, role, rec) ==
  LET r == people_df[i]
  IN  /\ r.name # ""
      /\ Len(r.cells[role]) = 1
      /\ rec.person = r.name
      /\ rec.role = role
      /\ rec.priority >= 1
      /\ NearestInt(r.cells[role][1], rec.priority)
      /\ \/ "D" \notin Range(r.toks)
         \/ (rec.priority = 1 /\ role \in DIRECTOR_ALLOWED_ROLES)

Priorities == 0 .. 3

Triples ==
  [ person : Names \cup { "", "Nan" }, role : Roles, priority : Priorities ]

\* The rows of the table that contribute (person, role, k).
Contributors(rec) ==
  { i \in DOMAIN people_df :
      \E role \in Range(role_cols) : Contributes(i, role, rec) }

C14_HigherPrioritiesIgnored ==
  (rerun = "stripped" /\ CallEnded) =>
    /\ pc = first_run.pc
    /\ schedule_cells = first_run.schedule_cells

\* The steps of assign_roles that can be taken in the current state.
EnabledSteps ==
  { i \in 1 .. 10 :
      CASE i = 1 -> ENABLED PrimaryDate
        [] i = 2 -> ENABLED PrimaryAttributeError
        [] i = 3 -> ENABLED PrimaryRole
        [] i = 4 -> ENABLED PrimaryDone
        [] i = 5 -> ENABLED GroupADate
        [] i = 6 -> ENABLED GroupARow
        [] i = 7 -> ENABLED GroupADone
        [] i = 8 -> ENABLED GroupBDate
        [] i = 9 -> ENABLED GroupBRow
        [] OTHER -> ENABLED Return }

\* C15: assign_roles is deterministic: in every state of a call exactly one
\* step can be taken, and a second call with identical inputs ends as the
\* first did, with an identical schedule, identical counts, the same pass
\* behind every entry and the same served set.
C15_Deterministic ==
  /\ pc \in { "primary", "groupA", "groupB" } => Cardinality(EnabledSteps) = 1
  /\ (rerun = "same" /\ CallEnded) => Outcome = first_run

\* C15 witness: a second call with identical inputs has returned a schedule
\* that holds entries of the primary pass and of Group A on two dates.
C15_Witness ==
  /\ rerun = "same" /\ pc = "done"
  /\ Len(service_dates) = 2
  /\ \E sl \in Slots : PassAt(sl) = "P"
  /\ \E sl \in Slots : PassAt(sl) = "A" /\ sl[1][2] = service_dates[2]
  /\ \E p, q \in Names :
       p # q /\ HasTruthyEntry(p, service_dates[2])
             /\ HasTruthyEntry(q, service_dates[2])

\* C16: a person placed in a cell of date d by the primary pass is never
\* placed in a Group A cell of the same date d; a primary-role server receives
\* a Group A assignment only on a different date.
C16_NoGroupAOnPrimaryDate ==
  \A sl, sm \in Slots :
    (PassAt(sl) = "P" /\ PassAt(sm) = "A" /\ PersonAt(sl) = PersonAt(sm)) =>
      sl[1][2] # sm[1][2]

\* C16 witness: a person serves a primary role on one date and holds a Group A
\* cell of another date, while the Group A pass left a cell of the first
\* date empty.
C16_Witness ==
  \E sl, sm \in Slots :
    /\ PassAt(sl) = "P" /\ PassAt(sm) = "A"
    /\ PersonAt(sl) = PersonAt(sm)
    /\ sl[1][2] # sm[1][2]
    /\ pc = "done"
    /\ \E r \in GroupARows : schedule_cells[<< r, sl[1][2] >>] = << >>

\* s is an initial part of t.
IsPrefix(s, t) == Len(s) <= Len(t) /\ SubSeq(t, 1, Len(s)) = s

\* The cell the Group A or Group B pass is at.
ReachedCell ==
  << IF pc = "groupA" THEN EXTRA_GROUP_A_ROWS[ri] ELSE EXTRA_GROUP_B_ROWS[ri],
     service_dates[di] >>

C18_GroupBNeverAssigns ==
  /\ [](pc \in { "groupB", "done" } =>
          \A p \in served_p1_people : assign_count[p] >= 1)
  /\ [](\A sl \in Slots : sl[1][1] \in GroupBRows => PassAt(sl) = "P")
  /\ [][ pc = "groupB" =>
           /\ schedule_cells' = schedule_cells
           /\ assign_count' = assign_count ]_vars

\* C18 witness: the run has returned with a Hall Support cell empty on a date
\* on which a served person who is no director was available and held no
\* cell, so that only the count test stood between that person and the cell.
C18_Witness ==
  /\ pc = "done"
  /\ \E p \in served_p1_people, i \in DOMAIN service_dates :
       LET d == service_dates[i]
       IN  /\ ~FlagsGet(p).has_D
           /\ Available(p, d)
           /\ p \notin AssignedOn(d)
           /\ schedule_cells[<< "Hall Support", d >>] = << >>

\* C19: between the assignment steps of the three passes each person's
\* AssignmentCount equals the number of occurrences of that person over all
\* schedule cells.
C19_CountIsOccurrences ==
  \A p \in Names : assign_count[p] = Received(p, { "P", "A", "B" })

\* C19 witness: one person occurs in two cells and another in one, with the
\* counts 2 and 1.
C19_Witness ==
  \E p, q \in Names :
    /\ p # q
    /\ Received(p, { "P", "A", "B" }) = 2 /\ assign_count[p] = 2
    /\ Received(q, { "P", "A", "B" }) = 1 /\ assign_count[q] = 1

\* ---------------------------------------------------------------------------
\* The review tool (lines 13-221). A string is a sequence of characters.

MaxSheetRows == 2

MaxGirls == 2

\* The character U+0301, the combining acute accent.
COMBINING_ACUTE == "U+0301"

\* The character U+00E1, the letter a with acute.
A_ACUTE == "U+00E1"

IsSpace(ch) == ch = " "

RECURSIVE LStrip(_)
LStrip(s) == IF s # << >> /\ IsSpace(Head(s)) THEN LStrip(Tail(s)) ELSE s

RECURSIVE RStrip(_)
RStrip(s) ==
  IF s # << >> /\ IsSpace(s[Len(s)])
  THEN RStrip(SubSeq(s, 1, Len(s) - 1))
  ELSE s

\* str.strip()
Strip(s) == RStrip(LStrip(s))

\* re.sub(r"\s+", " ", s)
RECURSIVE CollapseSpaces(_)
CollapseSpaces(s) ==
  IF s = << >> THEN << >>
  ELSE IF IsSpace(Head(s))
       THEN << " " >> \o CollapseSpaces(LStrip(s))
       ELSE << Head(s) >> \o CollapseSpaces(Tail(s))

\* unicodedata.normalize("NFKD", s)
RECURSIVE NFKD(_)
NFKD(s) ==
  IF s = << >> THEN << >>
  ELSE (IF Head(s) = A_ACUTE THEN << "a", COMBINING_ACUTE >>
        ELSE << Head(s) >>) \o NFKD(Tail(s))

\* "".join(ch for ch in s if not unicodedata.combining(ch))
RemoveCombining(s) == SelectSeq(s, LAMBDA ch : ch # COMBINING_ACUTE)

LowerChar(ch) ==
  CASE ch = "A" -> "a"
    [] ch = "B" -> "b"
    [] ch = "N" -> "n"
    [] OTHER -> ch

\* str.lower()
LowerStr(s) == [ i \in DOMAIN s |-> LowerChar(s[i]) ]

\* Lines 13-27.
normalize_name(s) ==
  Strip(LowerStr(RemoveCombining(NFKD(CollapseSpaces(Strip(s))))))

\* A row of the sheet as read: the name cell and the reason cell.
SheetRow(name, reason) == [ name |-> name, reason |-> reason ]

SheetRowChoices ==
  { SheetRow(<< " ", "A", "n", " " >>, << >>),
    SheetRow(<< "a", "n" >>, << "x" >>),
    SheetRow(<< A_ACUTE, "n" >>, << " " >>),
    SheetRow(<< "a", " ", " ", "b" >>, << " ", "x", " " >>),
    SheetRow(<< "b" >>, << >>),
    SheetRow(<< "a", " ", COMBINING_ACUTE >>, << "x" >>) }

SheetTables == SeqsUpTo(SheetRowChoices, MaxSheetRows)

\* The names of the "Serving Girl" column of the base file.
GirlChoices ==
  { << "a", "n" >>,
    << "A", "N" >>,
    << "a", " ", "b" >>,
    << "b", " " >>,
    << "c" >>,
    << "a" >> }

GirlLists == SeqsUpTo(GirlChoices, MaxGirls)

\* Lines 94-95: the two columns load_google_sheet adds.
LoadedRow(r) ==
  [ name |-> r.name, reason |-> r.reason,
    name_norm |-> normalize_name(r.name),
    reason_clean |-> Strip(r.reason) ]

\* ord(ch) of the characters a normalized name is made of.
CharCode(ch) ==
  CASE ch = " " -> 32
    [] ch = "a" -> 97
    [] ch = "b" -> 98
    [] ch = "c" -> 99
    [] ch = "n" -> 110
    [] OTHER -> 120

\* s < t for Python strings.
RECURSIVE StrLess(_, _)
StrLess(s, t) ==
  IF t = << >> THEN FALSE
  ELSE IF s = << >> THEN TRUE
  ELSE IF Head(s) # Head(t) THEN CharCode(Head(s)) < CharCode(Head(t))
  ELSE StrLess(Tail(s), Tail(t))

RECURSIVE InsertByName(_, _)
InsertByName(sorted, x) ==
  IF sorted = << >> THEN << x >>
  ELSE LET last == sorted[Len(sorted)]
       IN  IF StrLess(normalize_name(x), normalize_name(last))
           THEN Append(InsertByName(SubSeq(sorted, 1, Len(sorted) - 1), x),
                       last)
           ELSE Append(sorted, x)

\* sorted(names, key=lambda x: normalize_name(x)): a stable sort.
RECURSIVE SortedByName(_)
SortedByName(names) ==
  IF names = << >> THEN << >>
  ELSE InsertByName(SortedByName(SubSeq(names, 1, Len(names) - 1)),
                    names[Len(names)])

\* Faulty variant: of several matching rows the last one decides.
compute_status_LastMatch(sheet, serving_girl_name) ==
  LET sg_norm == normalize_name(serving_girl_name)
      match == SelectSeq(sheet, LAMBDA r : r.name_norm = sg_norm)
  IN  IF match = << >>
      THEN [ status |-> "Not submitted", reason |-> << >> ]
      ELSE LET reason == Strip(match[Len(match)].reason_clean)
           IN  IF reason = << >>
               THEN [ status |-> "Done", reason |-> << >> ]
               ELSE [ status |-> "Review", reason |-> reason ]

\* Lines 99-114.
compute_status(sheet, serving_girl_name) ==
  LET sg_norm == normalize_name(serving_girl_name)
      match == SelectSeq(sheet, LAMBDA r : r.name_norm = sg_norm)
  IN  IF match = << >>
      THEN [ status |-> "Not submitted", reason |-> << >> ]
      ELSE LET reason == Strip(match[1].reason_clean)
           IN  IF reason = << >>
               THEN [ status |-> "Done", reason |-> << >> ]
               ELSE [ status |-> "Review", reason |-> reason ]

\* sum(1 for _, s, _ in results if s == status)
CountStatus(res, status) ==
  Cardinality({ i \in DOMAIN res : res[i].status = status })

scheduler_vars ==
  << people_df, long_df, role_codes, service_dates, availability,
     schedule_cells, assign_count, di, ri, assigned_today, served_p1_people,
     placed_by, log >>

\* Lines 169-179: the sheet is loaded. A sheet without records is a frame
\* without columns, load_google_sheet raises ValueError (lines 89-92) and
\* the page stops.
LoadSheet ==
  /\ pc = "review"
  /\ \E rows \in SheetTables :
       IF rows = << >>
       THEN pc' = "stopped" /\ UNCHANGED sheet_df
       ELSE /\ pc' = "loaded"
            /\ sheet_df' = [ i \in DOMAIN rows |-> LoadedRow(rows[i]) ]
  /\ UNCHANGED << girls, results, metrics, scheduler_vars, rerun_vars >>

\* Lines 183-193: the director's names, sorted; the page stops if there are
\* none.
FilterGirls ==
  /\ pc = "loaded"
  /\ \E names \in GirlLists :
       /\ girls' = SortedByName(names)
       /\ pc' = IF names = << >> THEN "stopped" ELSE "status"
  /\ results' = << >>
  /\ UNCHANGED << sheet_df, metrics, scheduler_vars, rerun_vars >>

\* Lines 194-196: one turn of the loop over girls.
ComputeStatus ==
  /\ pc = "status"
  /\ Len(results) < Len(girls)
  /\ LET g == girls[Len(results) + 1]
         r == compute_status(sheet_df, g)
     IN  results' = Append(results, [ name |-> g, status |-> r.status,
                                      reason |-> r.reason ])
  /\ UNCHANGED << pc, sheet_df, girls, metrics, scheduler_vars, rerun_vars >>

\* Lines 198-205: the three counts.
ShowMetrics ==
  /\ pc = "status"
  /\ Len(results) = Len(girls)
  /\ metrics' = [ done_count |-> CountStatus(results, "Done"),
                  review_count |-> CountStatus(results, "Review"),
                  not_count |-> CountStatus(results, "Not submitted") ]
  /\ pc' = "shown"
  /\ UNCHANGED << sheet_df, girls, results, scheduler_vars, rerun_vars >>

InitStatus ==
  /\ pc = "review"
  /\ people_df = << >>
  /\ long_df = << >>
  /\ role_codes = << >>
  /\ service_dates = << >>
  /\ availability = << >>
  /\ schedule_cells = [ c \in Cells |-> << >> ]
  /\ assign_count = [ p \in Names |-> 0 ]
  /\ di = 1
  /\ ri = 0
  /\ assigned_today = {}
  /\ served_p1_people = {}
  /\ placed_by = [ c \in Cells |-> << >> ]
  /\ log = << >>
  /\ NoRerun
  /\ ReviewIdle

NextStatus ==
  \/ LoadSheet
  \/ FilterGirls
  \/ ComputeStatus
  \/ ShowMetrics

SpecStatus == InitStatus /\ [][NextStatus]_vars

\* The sheet rows whose normalized name is the normalized name of g.
MatchingRows(g) ==
  { k \in DOMAIN sheet_df :
      normalize_name(sheet_df[k].name) = normalize_name(g) }

\* C20: for every listed name the status is "Not submitted" exactly when no
\* sheet row's normalized name equals the normalized name; otherwise the first
\* matching row alone decides: "Done" with an empty reason when its trimmed
\* reason is empty, "Review" with that trimmed reason when it is not. The
\* Done, Review and Not submitted counts sum to the number of listed names.
C20_ComputeStatus ==
  /\ \A i \in DOMAIN results :
       LET g == girls[i]
           res == results[i]
       IN  /\ res.name = g
           /\ (res.status = "Not submitted") <=> (MatchingRows(g) = {})
           /\ MatchingRows(g) = {} => res.reason = << >>
           /\ MatchingRows(g) # {} =>
                LET reason == Strip(sheet_df[Least(MatchingRows(g))].reason)
                IN  IF reason = << >>
                    THEN res.status = "Done" /\ res.reason = << >>
                    ELSE res.status = "Review" /\ res.reason = reason
  /\ pc = "shown" =>
       /\ Len(results) = Len(girls)
       /\ metrics.done_count + metrics.review_count + metrics.not_count
            = Len(girls)

\* C20 witness: the counts are shown; one name is "Done" through the first of
\* two matching rows, written differently from the listed name, while the
\* second has a reason; another name is "Not submitted".
C20_Witness ==
  /\ pc = "shown"
  /\ metrics.done_count = 1 /\ metrics.not_count = 1
  /\ \E i \in DOMAIN results :
       /\ results[i].status = "Done"
       /\ \E k, m \in MatchingRows(girls[i]) :
            /\ k < m
            /\ sheet_df[k].name # girls[i]
            /\ Strip(sheet_df[m].reason) # << >>

====
